---- MODULE Spec2Model ----
(***************************************************************************)
(* A model of src/src/spiral_recapp.py (Spiral Recap v3.1): motif          *)
(* extraction, the convergence score, the six-routine section loop, the    *)
(* .srec writer (generate_srec), its reader (load_srec) and the            *)
(* --resume-from path of the command line.                                 *)
(*                                                                         *)
(* Text.  A Python str is a sequence of characters, each character a       *)
(* one-character TLA+ string.  Text that the user supplies (titles, input  *)
(* text, motifs) and everything computed from it is kept character by      *)
(* character.  A run of characters of one of the program's own string      *)
(* literals is written as a single element ("Core anchors:") when the run  *)
(* holds no hyphen, no newline, no quote, none of . ! ? and neither starts *)
(* nor ends with white space: no operation the program applies to such     *)
(* text (strip, the sentence split, startswith("---"), split("---"),       *)
(* splitlines, the YAML reader) can tell such a run from one letter.       *)
(* A character outside ASCII is written as its code point ("U+00DF" is the *)
(* sharp s, "U+2014" the em dash), and so is the backquote ("U+0060").     *)
(* Scores are integers in thousandths (0.70 is 700).                       *)
(***************************************************************************)
EXTENDS Integers, Sequences, FiniteSets, TLC

VARIABLES
  sc,             \* the score machine: the latest call of compute_convergence
  mx,             \* the motif machine: the latest call of extract_motifs
  pc,             \* where the process is: "idle" (not started), "routines" (in
                  \* the loop of generate_srec), "exit" (ended)
  disk,           \* the text of the .srec file the user keeps
  about,          \* what is known of that file: who wrote it and from what
  resumes,        \* how many resumes lie behind the file on disk
  inv,            \* the command line of the running process
  read,           \* the text load_srec read in this process
  loaded,         \* what load_srec returned in this process
  src,            \* what is known of the file this process resumed from
  gen,            \* the arguments and locals of generate_srec
  previous,       \* generate_srec's previous
  body_sections,  \* generate_srec's body_sections, in insertion order
  calls,          \* the calls of basic_summarize_section so far
  out,            \* the lines printed so far
  exit_code       \* the exit status

machines == <<sc, mx>>

program == <<pc, disk, about, resumes, inv, read, loaded, src, gen, previous,
             body_sections, calls, out, exit_code>>

vars == <<sc, mx, pc, disk, about, resumes, inv, read, loaded, src, gen, previous,
          body_sections, calls, out, exit_code>>

\* ------------------------------------------------------------ bounds
\* Largest word count the score machine reaches (the length cap is at 30).
MaxWordCount == 32
\* Largest motif count the score machine reaches (the motif cap is at 1).
MaxMotifCount == 3
\* Most words of a text handed to extract_motifs.
MaxTextWords == 4
\* Largest max_motifs handed to extract_motifs.
MaxMotifsArg == 3
\* Most resumes in a chain of documents.
MaxResumes == 1

\* ------------------------------------------------------------ helpers
Min(a, b) == IF a <= b THEN a ELSE b

Max(a, b) == IF a >= b THEN a ELSE b

Range(s) == {s[i] : i \in 1..Len(s)}

\* s[a:b] of Python for 0 <= a, b (0-based, b exclusive).
Slice(s, a, b) == SubSeq(s, a + 1, Min(b, Len(s)))

RECURSIVE Concat(_)
Concat(ss) == IF ss = <<>> THEN <<>> ELSE Head(ss) \o Concat(Tail(ss))

\* sep.join(parts)
RECURSIVE Join(_, _)
Join(sep, parts) ==
  IF parts = <<>> THEN <<>>
  ELSE IF Len(parts) = 1 THEN parts[1]
  ELSE parts[1] \o sep \o Join(sep, Tail(parts))

\* ------------------------------------------------------------ characters
LowerLetters == <<"a","b","c","d","e","f","g","h","i","j","k","l","m",
                  "n","o","p","q","r","s","t","u","v","w","x","y","z">>

UpperLetters == <<"A","B","C","D","E","F","G","H","I","J","K","L","M",
                  "N","O","P","Q","R","S","T","U","V","W","X","Y","Z">>

Digits == <<"0","1","2","3","4","5","6","7","8","9">>

WhiteSpace == {" ", "\n", "\t"}

IsSpace(c) == c \in WhiteSpace

\* \w of a str pattern: letters (the sharp s among them), digits, underscore.
WordChars ==
  Range(LowerLetters) \cup Range(UpperLetters) \cup Range(Digits) \cup {"_", "U+00DF"}

IsWordChar(c) == c \in WordChars

LowerOfUpper ==
  [c \in Range(UpperLetters) |-> LowerLetters[CHOOSE i \in 1..26 : UpperLetters[i] = c]]

UpperOfLower ==
  [c \in Range(LowerLetters) |-> UpperLetters[CHOOSE i \in 1..26 : LowerLetters[i] = c]]

\* str.lower() on one character.
LowerChar(c) == IF c \in DOMAIN LowerOfUpper THEN LowerOfUpper[c] ELSE c

lower(s) == [i \in 1..Len(s) |-> LowerChar(s[i])]

\* The title-cased first character of str.capitalize(): "U+00DF" becomes "Ss".
TitleChar(c) ==
  IF c \in DOMAIN UpperOfLower THEN <<UpperOfLower[c]>>
  ELSE IF c = "U+00DF" THEN <<"S", "s">>
  ELSE <<c>>

\* str.capitalize()
capitalize(w) == IF w = <<>> THEN <<>> ELSE TitleChar(w[1]) \o lower(Tail(w))

\* ------------------------------------------------------------ extract_motifs
\* STOPWORDS, line 18.
STOPWORDS ==
  { <<"t","h","e">>, <<"a">>, <<"a","n">>, <<"a","n","d">>, <<"o","r">>,
    <<"b","u","t">>, <<"i","n">>, <<"o","n">>, <<"a","t">>, <<"t","o">>,
    <<"f","o","r">>, <<"o","f">>, <<"w","i","t","h">>, <<"b","y">>,
    <<"i","s">>, <<"a","r","e">>, <<"w","a","s">>, <<"w","e","r","e">>,
    <<"b","e">>, <<"b","e","i","n","g">>, <<"b","e","e","n">> }

NoMotifs ==
  <<"[","n","o"," ","m","o","t","i","f","s"," ","d","e","t","e","c","t","e","d","]">>

NoStrongMotifs ==
  <<"[","n","o"," ","s","t","r","o","n","g"," ","m","o","t","i","f","s"," ",
    "d","e","t","e","c","t","e","d","]">>

\* re.findall(r'\b\w+\b', s): the maximal runs of word characters, scanned
\* from character i with the run so far in cur.
RECURSIVE FindWords(_, _, _)
FindWords(s, i, cur) ==
  IF i > Len(s) THEN (IF cur = <<>> THEN <<>> ELSE <<cur>>)
  ELSE IF IsWordChar(s[i]) THEN FindWords(s, i + 1, Append(cur, s[i]))
  ELSE (IF cur = <<>> THEN <<>> ELSE <<cur>>) \o FindWords(s, i + 1, <<>>)

findall_words(s) == FindWords(s, 1, <<>>)

\* line 27: [w for w in words if len(w) > 2 and w not in STOPWORDS]
filtered_words(text) ==
  SelectSeq(findall_words(lower(text)), LAMBDA w : Len(w) > 2 /\ w \notin STOPWORDS)

\* Counter(ws)[w]
Count(ws, w) == Cardinality({i \in 1..Len(ws) : ws[i] = w})

\* The position at which Counter(ws) first saw w (its insertion order).
FirstIndex(ws, w) == CHOOSE i \in 1..Len(ws) : ws[i] = w /\ \A j \in 1..(i - 1) : ws[j] # w

\* Insertion order alone, whatever the counts.
RanksBeforeInsertionOnly(ws, u, w) == FirstIndex(ws, u) < FirstIndex(ws, w)

\* The order of Counter.most_common: the higher count first, equal counts in
\* insertion order (sorted and heapq.nlargest are both stable).
RanksBefore(ws, u, w) ==
  \/ Count(ws, u) > Count(ws, w)
  \/ Count(ws, u) = Count(ws, w) /\ FirstIndex(ws, u) < FirstIndex(ws, w)

\* Counter(ws).most_common(n): the n first in that order, none when n <= 0.
most_common(ws, n) ==
  LET keys == Range(ws)
      rank(w) == Cardinality({u \in keys : RanksBefore(ws, u, w)})
      all == [k \in 1..Cardinality(keys) |-> CHOOSE w \in keys : rank(w) = k - 1]
  IN IF n <= 0 THEN <<>> ELSE SubSeq(all, 1, Min(n, Len(all)))

\* lines 30-37: the loop over common from position i.
RECURSIVE CollectMotifs(_, _, _, _, _)
CollectMotifs(common, i, motifs, seen, max_motifs) ==
  IF i > Len(common) THEN motifs
  ELSE LET w == common[i]
           fresh == w \notin seen
           motifs2 == IF fresh THEN Append(motifs, capitalize(w)) ELSE motifs
           seen2 == IF fresh THEN seen \cup {w} ELSE seen
       IN IF Len(motifs2) >= max_motifs THEN motifs2
          ELSE CollectMotifs(common, i + 1, motifs2, seen2, max_motifs)

\* extract_motifs(text, max_motifs), lines 21-39.
extract_motifs(text, max_motifs) ==
  IF text = <<>> THEN <<NoMotifs>>
  ELSE LET common == most_common(filtered_words(text), max_motifs * 2)
           motifs == CollectMotifs(common, 1, <<>>, {}, max_motifs)
       IN IF motifs = <<>> THEN <<NoStrongMotifs>> ELSE motifs

\* ------------------------------------------------------------ compute_convergence
BaseConvergence == 700

LengthCap == 150

MotifCap == 100

DefaultMaxConvergence == 950

\* The sum of line 49 without its min(..., max_convergence).
convergence_uncapped(input_length, motif_count, max_convergence) ==
  IF input_length = 0 THEN BaseConvergence
  ELSE BaseConvergence + Min(5 * input_length, LengthCap) + Min(200 * motif_count, MotifCap)

\* compute_convergence(input_length, motif_count, max_convergence), lines
\* 42-49, in thousandths: input_length / 200 is 5 thousandths a word and
\* motif_count / 5 is 200 thousandths a motif.
compute_convergence(input_length, motif_count, max_convergence) ==
  IF input_length = 0 THEN BaseConvergence
  ELSE Min(BaseConvergence + Min(5 * input_length, LengthCap)
                           + Min(200 * motif_count, MotifCap),
           max_convergence)

\* ------------------------------------------------------------ str operations
\* The least and the greatest element of a non-empty set of integers.
MinOf(S) == CHOOSE x \in S : \A y \in S : x <= y

MaxOf(S) == CHOOSE x \in S : \A y \in S : x >= y

\* Op at the value v, with v worked out once.
At(v, Op(_)) == CHOOSE r \in {Op(x) : x \in {v}} : TRUE

\* The sequence f with its elements worked out.
Tuple(f) == SubSeq(f, 1, Len(f))

\* The elements of a set of integers in increasing order.
Sorted(S) ==
  Tuple([k \in 1..Cardinality(S) |-> CHOOSE x \in S : Cardinality({y \in S : y < x}) = k - 1])

\* str.strip()
strip(s) ==
  LET keep == {i \in 1..Len(s) : ~IsSpace(s[i])}
  IN IF keep = {} THEN <<>> ELSE SubSeq(s, MinOf(keep), MaxOf(keep))

\* s.startswith(p)
startswith(s, p) == Len(s) >= Len(p) /\ SubSeq(s, 1, Len(p)) = p

\* The positions at which p occurs in s.
Occurrences(s, p) == {i \in 1..(Len(s) - Len(p) + 1) : SubSeq(s, i, i + Len(p) - 1) = p}

\* p in s
Contains(s, p) == Occurrences(s, p) # {}

\* len(s.split()): the number of maximal runs of characters that are not
\* white space.
WordCount(s) ==
  Cardinality({i \in 1..Len(s) : ~IsSpace(s[i]) /\ (i = 1 \/ IsSpace(s[i - 1]))})

\* s.splitlines() for the line break "\n".
splitlines(s) ==
  At({i \in 1..Len(s) : s[i] = "\n"}, LAMBDA breaks :
    At(Sorted({1} \cup {i + 1 : i \in {b \in breaks : b < Len(s)}}), LAMBDA starts :
      LET endOf(a) == LET later == {b \in breaks : b >= a}
                      IN IF later = {} THEN Len(s) ELSE MinOf(later) - 1
      IN IF s = <<>> THEN <<>>
         ELSE Tuple([k \in 1..Len(starts) |-> SubSeq(s, starts[k], endOf(starts[k]))])))

SentenceEnds == {".", "!", "?"}

\* re.split(r'(?<=[.!?])\s+', s): s cut at every run of white space that
\* follows one of . ! ? (the run itself dropped).
split_sentences(s) ==
  At({i \in 2..Len(s) : IsSpace(s[i]) /\ s[i - 1] \in SentenceEnds}, LAMBDA seps :
    LET runEnd(i) == MaxOf({j \in i..Len(s) : \A k \in i..j : IsSpace(s[k])})
        endOf(a) == LET later == {i \in seps : i >= a}
                    IN IF later = {} THEN Len(s) ELSE MinOf(later) - 1
    IN At(Sorted({1} \cup {runEnd(i) + 1 : i \in seps}), LAMBDA starts :
         Tuple([k \in 1..Len(starts) |-> SubSeq(s, starts[k], endOf(starts[k]))])))

\* ------------------------------------------------------------ basic_summarize_section
\* The routine names of lines 126-131, in the loop's order.
Routines ==
  << <<"Foundation", " ", "Routine", " ", "(Initial Understanding)">>,
     <<"Connection", " ", "Routine", " ", "(Contextual Expansion)">>,
     <<"Placement", " ", "Routine", " ", "(Objective Slotting)">>,
     <<"Polish", " ", "Routine", " ", "(Refinement)">>,
     <<"Action", " ", "Routine", " ", "(Application)">>,
     <<"Synthesis", " ", "Routine", " ", "(Verification)">> >>

\* line 59: "- [No input text provided]\n- Placeholder content."
Placeholder ==
  <<"-", " ", "[No input text provided]", "\n", "-", " ", "Placeholder content", ".">>

\* lines 78-85: the seal of the Synthesis routine.
PoeticSeal(motifs) ==
  IF motifs # <<>>
  THEN LET motif1 == IF Len(motifs) > 0 THEN motifs[1] ELSE <<"residue">>
           motif2 == IF Len(motifs) > 1 THEN motifs[2] ELSE <<"wipe and night">>
           motif3 == IF Len(motifs) > 2 THEN motifs[3] ELSE <<"qualia">>
       IN <<"Coils carry", " ">> \o motif1 \o <<" ", "through", " ">> \o motif2
            \o <<"U+2014">> \o motif3 \o <<" ", "seeds bloom where memory fights", ".">>
  ELSE <<"Coils carry", " ", "the residue through wipe and night", "U+2014",
         "qualia seeds bloom where memory fights", ".">>

\* lines 61-86: the text of one routine from its base.
RoutineText(routine_name, base, motifs) ==
  LET sentences == SubSeq(split_sentences(strip(base)), 1,
                          Min(8, Len(split_sentences(strip(base)))))
      n == Len(sentences)
      commas == Join(<<",", " ">>, motifs)
  IN IF "Foundation" \in Range(routine_name)
     THEN <<"-", " ", "Core anchors:", " ">> \o commas
            \o <<"\n", "-", " ", "Sample start:", " ">>
            \o Join(<<" ">>, SubSeq(sentences, 1, Min(2, n)))
     ELSE IF "Connection" \in Range(routine_name)
     THEN <<"-", " ", "Associations:", " ">>
            \o Join(<<" ", "U+2192", " ">>, SubSeq(sentences, 3, Min(4, n)))
            \o <<"\n", "-", " ", "Tied to motifs:", " ">>
            \o (IF motifs # <<>> THEN motifs[1] ELSE <<>>)
     ELSE IF "Placement" \in Range(routine_name)
     THEN <<"-", " ", "Facts placed:", " ">>
            \o (IF n > 4 THEN sentences[5] ELSE <<"-", " ", "[short base]">>)
            \o <<"\n", "-", " ", "Referenced motifs:", " ">>
            \o Join(<<",", " ">>, SubSeq(motifs, 1, Min(2, Len(motifs))))
     ELSE IF "Polish" \in Range(routine_name)
     THEN <<"-", " ", "Pruned essence:", " ">>
            \o (IF n > 0 THEN sentences[n] ELSE <<"-", " ", "[empty]">>)
            \o <<"\n", "-", " ", "Refined motifs:", " ">> \o commas
     ELSE IF "Action" \in Range(routine_name)
     THEN <<"-", " ", "Projected: resume with PIE seed", ".", "\n",
            "-", " ", "Apply motifs:", " ">> \o commas
     ELSE <<"-", " ", "Final verification", ".", "\n", "-", " ", "Poetic Seal:", " ">>
            \o PoeticSeal(motifs)

\* basic_summarize_section(input_text, routine_name, previous_content, motifs),
\* lines 52-86; motifs is never None at its one call site.
basic_summarize_section(input_text, routine_name, previous_content, motifs) ==
  IF input_text = <<>> /\ previous_content = <<>> THEN Placeholder
  ELSE RoutineText(routine_name,
                   IF previous_content # <<>> THEN previous_content ELSE input_text,
                   motifs)

\* ------------------------------------------------------------ bytes and base64
\* The printable ASCII characters, code 32 first.
Ascii ==
  <<" ", "!", "\"", "#", "$", "%", "&", "'", "(", ")", "*", "+", ",", "-", ".", "/",
    "0", "1", "2", "3", "4", "5", "6", "7", "8", "9", ":", ";", "<", "=", ">", "?",
    "@", "A", "B", "C", "D", "E", "F", "G", "H", "I", "J", "K", "L", "M", "N", "O",
    "P", "Q", "R", "S", "T", "U", "V", "W", "X", "Y", "Z", "[", "\\", "]", "^", "_",
    "U+0060", "a", "b", "c", "d", "e", "f", "g", "h", "i", "j", "k", "l", "m", "n", "o",
    "p", "q", "r", "s", "t", "u", "v", "w", "x", "y", "z", "{", "|", "}", "~">>

AsciiCode == [c \in Range(Ascii) |-> 31 + CHOOSE i \in 1..Len(Ascii) : Ascii[i] = c]

\* The UTF-8 bytes of one character.
Utf8Char(c) ==
  IF c \in DOMAIN AsciiCode THEN <<AsciiCode[c]>>
  ELSE IF c = "\n" THEN <<10>>
  ELSE IF c = "\t" THEN <<9>>
  ELSE IF c = "U+00DF" THEN <<195, 159>>
  ELSE <<63>>

\* s.encode("utf-8")
encode_utf8(s) == Concat([i \in 1..Len(s) |-> Utf8Char(s[i])])

B64Chars == UpperLetters \o LowerLetters \o Digits \o <<"+", "/">>

B64Index == [c \in Range(B64Chars) |-> (CHOOSE i \in 1..64 : B64Chars[i] = c) - 1]

\* base64.b64encode(bytes).decode("utf-8"): three bytes make four characters,
\* a last group of one or two bytes is padded with "=".
b64encode(bytes) ==
  LET n == Len(bytes)
      byte(i) == IF i <= n THEN bytes[i] ELSE 0
      group(k) == byte(3 * k + 1) * 65536 + byte(3 * k + 2) * 256 + byte(3 * k + 3)
      sextet(k, j) == (group(k) \div (IF j = 0 THEN 262144 ELSE IF j = 1 THEN 4096
                                      ELSE IF j = 2 THEN 64 ELSE 1)) % 64
      char(p) == LET k == (p - 1) \div 4
                     j == (p - 1) % 4
                 IN IF 3 * k + j > n THEN "=" ELSE B64Chars[sextet(k, j) + 1]
  IN [p \in 1..(4 * ((n + 2) \div 3)) |-> char(p)]

\* Whether base64.b64decode accepts s: whole groups of four characters of the
\* alphabet, the last one padded with at most two "=".
b64_well_formed(s) ==
  LET n == Len(s)
      pad == Cardinality({i \in 1..n : s[i] = "="})
  IN /\ n % 4 = 0
     /\ pad <= 2
     /\ \A i \in 1..n : IF i > n - pad THEN s[i] = "=" ELSE s[i] \in DOMAIN B64Index

\* base64.b64decode(s) of a well-formed s.
b64decode(s) ==
  LET n == Len(s)
      pad == Cardinality({i \in 1..n : s[i] = "="})
      six(i) == IF s[i] = "=" THEN 0 ELSE B64Index[s[i]]
      group(k) == six(4 * k + 1) * 262144 + six(4 * k + 2) * 4096
                    + six(4 * k + 3) * 64 + six(4 * k + 4)
      byte(q) == LET k == (q - 1) \div 3
                     j == (q - 1) % 3
                 IN (group(k) \div (IF j = 0 THEN 65536 ELSE IF j = 1 THEN 256 ELSE 1)) % 256
  IN [q \in 1..(3 * (n \div 4) - pad) |-> byte(q)]

\* ------------------------------------------------------------ yaml.dump
\* The decimal digits of a natural number.
RECURSIVE IntToDigits(_)
IntToDigits(n) ==
  IF n < 10 THEN <<Digits[n + 1]>> ELSE Append(IntToDigits(n \div 10), Digits[(n % 10) + 1])

\* Plain scalars that YAML 1.1 reads as something other than a string.
YamlBoolWords ==
  { <<"y","e","s">>, <<"Y","e","s">>, <<"Y","E","S">>, <<"n","o">>, <<"N","o">>,
    <<"N","O">>, <<"t","r","u","e">>, <<"T","r","u","e">>, <<"T","R","U","E">>,
    <<"f","a","l","s","e">>, <<"F","a","l","s","e">>, <<"F","A","L","S","E">>,
    <<"o","n">>, <<"O","n">>, <<"O","N">>, <<"o","f","f">>, <<"O","f","f">>,
    <<"O","F","F">> }

YamlTrueWords ==
  { <<"y","e","s">>, <<"Y","e","s">>, <<"Y","E","S">>, <<"t","r","u","e">>,
    <<"T","r","u","e">>, <<"T","R","U","E">>, <<"o","n">>, <<"O","n">>, <<"O","N">> }

YamlNullWords == { <<"~">>, <<"n","u","l","l">>, <<"N","u","l","l">>, <<"N","U","L","L">> }

IsDigits(s) == s # <<>> /\ \A i \in 1..Len(s) : s[i] \in Range(Digits)

\* An integer ([-+]?digits) or a decimal fraction (digits.digits).
IsYamlNumber(s) ==
  \/ IsDigits(s)
  \/ Len(s) > 1 /\ s[1] \in {"-", "+"} /\ IsDigits(Tail(s))
  \/ \E d \in 1..Len(s) : s[d] = "." /\ IsDigits(SubSeq(s, 1, d - 1))
                            /\ (d = Len(s) \/ IsDigits(SubSeq(s, d + 1, Len(s))))

ResolvesNonStr(s) == s \in YamlBoolWords \cup YamlNullWords \/ IsYamlNumber(s)

\* The characters that may not start a plain scalar.
YamlLeadIndicators == {"#", ",", "[", "]", "{", "}", "&", "*", "!", "|", ">", "'", "\"", "%", "@", "U+0060"}

IsAsciiText(s) == \A i \in 1..Len(s) : s[i] \in DOMAIN AsciiCode

\* Whether the emitter may write s as a plain scalar in a block mapping or
\* sequence (Emitter.analyze_scalar and choose_scalar_style), for a
\* one-line s.
PlainAllowed(s) ==
  /\ s # <<>>
  /\ IsAsciiText(s)
  /\ s[1] \notin YamlLeadIndicators
  /\ ~startswith(s, <<"-", "-", "-">>) /\ ~startswith(s, <<".", ".", ".">>)
  /\ ~(s[1] \in {"-", "?", ":"} /\ (Len(s) = 1 \/ IsSpace(s[2])))
  /\ ~IsSpace(s[1]) /\ ~IsSpace(s[Len(s)])
  /\ \A i \in 1..Len(s) : s[i] = ":" => (i < Len(s) /\ ~IsSpace(s[i + 1]))
  /\ \A i \in 2..Len(s) : s[i] = "#" => ~IsSpace(s[i - 1])
  /\ ~ResolvesNonStr(s)

\* The escape the emitter writes for a character outside ASCII
\* (allow_unicode is off), as one element.
YamlEscape(c) == IF c \in DOMAIN AsciiCode THEN c
                 ELSE "\\u" \o c

\* A str as yaml.dump writes it: plain, single-quoted, or double-quoted with
\* escapes when it holds characters outside ASCII.
yaml_scalar(s) ==
  IF PlainAllowed(s) THEN s
  ELSE IF IsAsciiText(s)
  THEN <<"'">> \o Concat([i \in 1..Len(s) |-> IF s[i] = "'" THEN <<"'", "'">> ELSE <<s[i]>>])
         \o <<"'">>
  ELSE <<"\"">> \o [i \in 1..Len(s) |-> YamlEscape(s[i])] \o <<"\"">>

\* yaml.dump of a list of str under a key: "[]" or one "- item" line each.
yaml_list(items) ==
  IF items = <<>> THEN <<" ", "[", "]", "\n">>
  ELSE <<"\n">> \o Concat([i \in 1..Len(items) |-> <<"-", " ">> \o yaml_scalar(items[i]) \o <<"\n">>])

\* yaml.dump(metadata, sort_keys=False), lines 112-121 and 149.
yaml_dump(metadata) ==
  <<"t", "i", "t", "l", "e", ":", " ">> \o yaml_scalar(metadata.title) \o <<"\n">>
  \o <<"d", "a", "t", "e", ":", " ">> \o yaml_scalar(metadata.date) \o <<"\n">>
  \o <<"v", "e", "r", "s", "i", "o", "n", ":", " ">> \o yaml_scalar(metadata.version) \o <<"\n">>
  \o <<"c", "o", "n", "v", "e", "r", "g", "e", "n", "c", "e", ":", " ">> \o yaml_scalar(metadata.convergence) \o <<"\n">>
  \o <<"p", "i", "e", "_", "v", "e", "c", "t", "o", "r", ":", " ">> \o yaml_scalar(metadata.pie_vector) \o <<"\n">>
  \o <<"k", "e", "y", "_", "m", "o", "t", "i", "f", "s", ":">> \o yaml_list(metadata.key_motifs)
  \o <<"s", "r", "t", "_", "m", "o", "d", "e", ":", " ">>
  \o (IF metadata.srt_mode THEN <<"t","r","u","e">> ELSE <<"f","a","l","s","e">>) \o <<"\n">>
  \o <<"i", "n", "p", "u", "t", "_", "l", "e", "n", "g", "t", "h", ":", " ">> \o IntToDigits(metadata.input_length) \o <<"\n">>

\* ------------------------------------------------------------ generate_srec
\* An Optional argument: <<>> is None, <<v>> is the value v.
None == <<>>

Some(v) == <<v>>

DefaultMaxMotifs == 5

PieTextLength == 100

\* lines 98-101: the motifs of the document.
ResolveMotifs(key_motifs, input_text) ==
  IF key_motifs = None THEN extract_motifs(input_text, DefaultMaxMotifs)
  ELSE IF key_motifs[1] = <<>> THEN <<>>
  ELSE key_motifs[1]

\* lines 103-104: the score of the document.
ResolveConvergence(convergence, input_text, motifs) ==
  IF convergence = None
  THEN compute_convergence(WordCount(input_text), Len(motifs), DefaultMaxConvergence)
  ELSE convergence[1]

\* lines 106-108: the seed bytes of the document.
ResolveSeed(pie_seed, title, motifs, input_text) ==
  IF pie_seed = None
  THEN encode_utf8(title \o <<":", " ">> \o Join(<<" ">>, motifs) \o <<" ", "-", " ">>
                     \o Slice(input_text, 0, PieTextLength))
  ELSE pie_seed[1]

\* datetime.now().strftime("%Y-%m-%d %H:%M %Z") of a naive datetime: the
\* clock at one reading, and nothing for %Z after the last blank.
Now == <<"2","0","2","6","-","0","1","-","3","1"," ","0","9",":","3","0"," ">>

\* The hundredths that "{:.2f}" may print for a score in thousandths: a score
\* that ends in 5 is a binary float next to the half, printed up or down.
Hundredths(convergence) ==
  IF convergence % 10 = 5 THEN {convergence \div 10, convergence \div 10 + 1}
  ELSE IF convergence % 10 < 5 THEN {convergence \div 10}
  ELSE {convergence \div 10 + 1}

\* "{:.2f}" of so many hundredths.
Format2f(h) ==
  IntToDigits(h \div 100) \o <<".", Digits[((h \div 10) % 10) + 1], Digits[(h % 10) + 1]>>

\* lines 112-121: metadata.
Metadata(title, h, pie_seed, motifs, input_text) ==
  [title |-> title,
   date |-> Now,
   version |-> <<"3", ".", "1">>,
   convergence |-> <<"U+03B7", " ", "U+2248", " ">> \o Format2f(h),
   pie_vector |-> b64encode(pie_seed),
   key_motifs |-> motifs,
   srt_mode |-> TRUE,
   input_length |-> IF input_text # <<>> THEN WordCount(input_text) ELSE 0]

\* body_sections[routine] = content on a dict kept as its items in
\* insertion order.
DictSet(d, key, value) ==
  IF \E i \in 1..Len(d) : d[i][1] = key
  THEN [i \in 1..Len(d) |-> IF d[i][1] = key THEN <<key, value>> ELSE d[i]]
  ELSE Append(d, <<key, value>>)

\* The prior content kept as it was.
KeepPrevious(old, content) == old

\* line 135: previous = content
NextPrevious(old, content) == content

\* line 137: the sections under their headings, a blank line between them.
Body(sections) ==
  Join(<<"\n", "\n">>,
       [i \in 1..Len(sections) |->
          <<"##", " ">> \o sections[i][1] \o <<"\n">> \o sections[i][2]])

\* lines 139-147: the trace, stripped, with the score at its end.
Trace(h) ==
  <<"[Start] U+2500U+2500U+25BA [Foundation U+03B7=0", ".",
    "70] U+2500U+2500U+25BA [Connection U+03B7=0", ".",
    "82] U+2500U+2500U+25BA [Placement U+03B7=0", ".", "89]", "\n",
    " ", " ", " ", " ", " ", " ", " ", " ", " ", " ",
    "U+2502                        U+2502                       U+2502", "\n",
    " ", " ", " ", " ", " ", " ", " ", " ", " ", " ",
    "U+2514U+2500 depth: 2 U+2500(x13)U+2534U+2500 +3 assoc U+2500(x11)U+2534U+2500 facts slotted",
    "\n",
    "[Polish U+03B7=0", ".", "91] U+2500U+2500U+25BA [Action U+03B7=0", ".",
    "92] U+2500U+2500U+25BA [Synthesis U+03B7=0", ".", "93]", "\n",
    " ", " ", " ", " ", " ", " ", " ", " ", " ", " ",
    "U+2502                        U+2502", "\n",
    " ", " ", " ", " ", " ", " ", " ", " ", " ", " ",
    "U+2514U+2500 pruned bloat U+2500(x10)U+2534U+2500 actionable + seal", "\n",
    "Converged U+2500(x48)U+25BA U+03B7=">> \o Format2f(h)

\* lines 149-150: the text of the .srec file.
Output(metadata, sections, h) ==
  <<"-", "-", "-", "\n">> \o yaml_dump(metadata) \o <<"-", "-", "-", "\n", "\n">>
  \o Body(sections) \o <<"\n", "\n", "##", " ", "Iterative Progression Trace", "\n">>
  \o Trace(h)

\* ------------------------------------------------------------ yaml.safe_load
\* A Python value read from YAML: its type and its content (the characters
\* of a str, the items of a list of str, the text of anything else).
PyStr(s) == [t |-> "str", v |-> s]

PyList(items) == [t |-> "list", v |-> items]

PyNull == [t |-> "null", v |-> <<>>]

NonAscii == {"U+03B7", "U+2248", "U+2014", "U+2192", "U+00DF"}

\* The character an element of a double-quoted scalar stands for.
YamlUnescape(a) ==
  IF \E c \in NonAscii : YamlEscape(c) = a THEN CHOOSE c \in NonAscii : YamlEscape(c) = a
  ELSE a

\* One scalar of the text: [ok, val].  A quoted scalar must close on its
\* line; "[]" is the empty list; a plain scalar is resolved by its spelling.
ParseScalar(text) ==
  LET n == Len(text)
      inner == SubSeq(text, 2, n - 1)
  IN IF text = <<>> THEN [ok |-> TRUE, val |-> PyNull]
     ELSE IF text[1] = "'"
     THEN IF n >= 2 /\ text[n] = "'" /\ "'" \notin Range(inner)
          THEN [ok |-> TRUE, val |-> PyStr(inner)]
          ELSE [ok |-> FALSE, val |-> PyNull]
     ELSE IF text[1] = "\""
     THEN IF n >= 2 /\ text[n] = "\"" /\ "\"" \notin Range(inner)
          THEN [ok |-> TRUE, val |-> PyStr([i \in 1..Len(inner) |-> YamlUnescape(inner[i])])]
          ELSE [ok |-> FALSE, val |-> PyNull]
     ELSE IF text = <<"[", "]">> THEN [ok |-> TRUE, val |-> PyList(<<>>)]
     ELSE IF text \in YamlNullWords THEN [ok |-> TRUE, val |-> PyNull]
     ELSE IF text \in YamlBoolWords THEN [ok |-> TRUE, val |-> [t |-> "bool", v |-> text]]
     ELSE IF IsYamlNumber(text) THEN [ok |-> TRUE, val |-> [t |-> "number", v |-> text]]
     ELSE IF PlainAllowed(text) THEN [ok |-> TRUE, val |-> PyStr(text)]
     ELSE [ok |-> FALSE, val |-> PyNull]

\* A line "- item" of a block sequence.
IsItemLine(l) == l # <<>> /\ l[1] = "-" /\ (Len(l) = 1 \/ l[2] = " ")

\* The colons of a line that end a key: each is followed by a blank or ends
\* the line.
KeyColons(l) == {i \in 2..Len(l) : l[i] = ":" /\ (i = Len(l) \/ IsSpace(l[i + 1]))}

\* A line "key: value" or "key:" of a block mapping at column 0.
IsKeyLine(l) ==
  /\ l # <<>> /\ ~IsItemLine(l) /\ KeyColons(l) # {}
  /\ ~IsSpace(l[1]) /\ l[1] \notin YamlLeadIndicators

KeyOf(l) == SubSeq(l, 1, MinOf(KeyColons(l)) - 1)

ValueTextOf(l) == strip(SubSeq(l, MinOf(KeyColons(l)) + 1, Len(l)))

ItemTextOf(l) == strip(SubSeq(l, 2, Len(l)))

\* yaml.safe_load(text) for a document of the shapes yaml.dump writes and of
\* their prefixes: a block mapping of scalars and of block sequences of
\* scalars ("map", with its items in order), the empty document ("none"),
\* one scalar ("scalar", with its value), a block sequence of scalars
\* ("list", with the values of its items); anything else does not parse
\* ("error").
yaml_load_lines(lines) ==
  LET idx == {i \in 1..Len(lines) : lines[i] # <<>>}
      keys == {i \in idx : IsKeyLine(lines[i])}
      items == {i \in idx : IsItemLine(lines[i])}
      owner(i) == MaxOf({k \in keys : k < i})
      itemsOf(k) == {i \in items : i > k /\ \A j \in (k + 1)..i : j \in items \/ j \notin idx}
      orphan(i) == \/ {k \in keys : k < i} = {}
                   \/ i \notin itemsOf(owner(i))
                   \/ ValueTextOf(lines[owner(i)]) # <<>>
      valueOf(k) ==
        IF ValueTextOf(lines[k]) # <<>> THEN ParseScalar(ValueTextOf(lines[k]))
        ELSE IF itemsOf(k) = {} THEN [ok |-> TRUE, val |-> PyNull]
        ELSE LET its == Sorted(itemsOf(k))
                 parsed == [j \in 1..Len(its) |-> ParseScalar(ItemTextOf(lines[its[j]]))]
             IN [ok |-> \A j \in 1..Len(its) : parsed[j].ok /\ parsed[j].val.t = "str",
                 val |-> PyList([j \in 1..Len(its) |-> parsed[j].val.v])]
      order == Sorted(keys)
      listed == Sorted(items)
      listVals == [j \in 1..Len(listed) |-> ParseScalar(ItemTextOf(lines[listed[j]]))]
  IN IF idx = {} THEN [kind |-> "none", map |-> <<>>, val |-> PyNull]
     ELSE IF keys = {} /\ items = idx /\ \A j \in 1..Len(listed) : listVals[j].ok
     THEN [kind |-> "list", map |-> <<>>,
           val |-> [t |-> "list", v |-> [j \in 1..Len(listed) |-> listVals[j].val]]]
     ELSE IF keys = {} /\ Cardinality(idx) = 1
             /\ ParseScalar(strip(lines[MinOf(idx)])).ok
     THEN [kind |-> "scalar", map |-> <<>>, val |-> ParseScalar(strip(lines[MinOf(idx)])).val]
     ELSE IF /\ idx = keys \cup items
             /\ keys # {}
             /\ \A i \in items : ~orphan(i)
             /\ \A k \in keys : valueOf(k).ok
     THEN [kind |-> "map",
           map |-> Tuple([j \in 1..Len(order) |->
                            <<KeyOf(lines[order[j]]), valueOf(order[j]).val>>]),
           val |-> PyNull]
     ELSE [kind |-> "error", map |-> <<>>, val |-> PyNull]

yaml_safe_load(text) == At(splitlines(text), yaml_load_lines)

\* key in map, for a dict kept as its items
HasKey(map, key) == \E i \in 1..Len(map) : map[i][1] = key

\* k in metadata (line 173) for what yaml.safe_load returned: a key of a dict,
\* a substring of a str, an item of a list.
InMetadata(metadata, k) ==
  IF metadata.kind = "map" THEN HasKey(metadata.map, k)
  ELSE IF metadata.kind = "scalar" THEN Contains(metadata.val.v, k)
  ELSE \E j \in 1..Len(metadata.val.v) :
         metadata.val.v[j].t = "str" /\ metadata.val.v[j].v = k

\* metadata.get(key, default)
Get(map, key, default) ==
  IF HasKey(map, key) THEN map[CHOOSE i \in 1..Len(map) : map[i][1] = key][2] ELSE default

\* ------------------------------------------------------------ load_srec
Dashes == <<"-", "-", "-">>

\* content.split("---", 2): the text before the first "---", between the
\* first and the second, and after the second.
split_dashes(content) ==
  At(Occurrences(content, Dashes), LAMBDA occ :
    LET i1 == MinOf(occ)
        rest == {i \in occ : i >= i1 + 3}
        i2 == MinOf(rest)
    IN IF occ = {} THEN <<content>>
       ELSE IF rest = {}
       THEN <<SubSeq(content, 1, i1 - 1), SubSeq(content, i1 + 3, Len(content))>>
       ELSE <<SubSeq(content, 1, i1 - 1), SubSeq(content, i1 + 3, i2 - 1),
              SubSeq(content, i2 + 3, Len(content))>>)

\* line 172
required_keys ==
  << <<"t","i","t","l","e">>, <<"v","e","r","s","i","o","n">>,
     <<"c","o","n","v","e","r","g","e","n","c","e">>,
     <<"p","i","e","_","v","e","c","t","o","r">>,
     <<"k","e","y","_","m","o","t","i","f","s">> >>

TitleKey == required_keys[1]

ConvergenceKey == required_keys[3]

PieVectorKey == required_keys[4]

KeyMotifsKey == required_keys[5]

\* lines 177-183: the last line of the body that holds the seal.
PoeticSealOf(body_and_trace) ==
  At(splitlines(body_and_trace), LAMBDA lines :
    LET hits == {i \in 1..Len(lines) : "Poetic Seal:" \in Range(lines[i])
                                         \/ "Coils carry" \in Range(lines[i])}
    IN IF Contains(body_and_trace, <<"Synthesis", " ", "Routine">>) /\ hits # {}
       THEN strip(lines[MaxOf(hits)])
       ELSE <<>>)

\* lines 194-196: the exception is printed and {} is returned.
LoadFailed(printed, message) ==
  [result |-> <<>>, prints |-> Append(printed, <<"Error loading .srec:", message>>)]

\* lines 167-196 of load_srec, once the text is cut in three parts: what it
\* returns and what it prints.
load_parts(parts) ==
  At(yaml_safe_load(strip(parts[2])), LAMBDA metadata :
    LET body_and_trace == strip(parts[3])
        missing == SelectSeq(required_keys, LAMBDA k : ~InMetadata(metadata, k))
        warning == IF missing # <<>>
                   THEN << <<"Warning: Missing metadata keys:">> \o missing >>
                   ELSE <<>>
    IN IF metadata.kind = "error" THEN LoadFailed(<<>>, "yaml.YAMLError")
       ELSE IF metadata.kind = "none" \/ (metadata.kind = "scalar" /\ metadata.val.t # "str")
       THEN LoadFailed(<<>>, "TypeError: argument is not iterable")
       ELSE IF metadata.kind \in {"scalar", "list"}
       THEN LoadFailed(warning, "AttributeError: no attribute 'get'")
       ELSE [result |->
               [metadata |-> metadata.map,
                pie_vector |-> Get(metadata.map, PieVectorKey, PyStr(<<>>)),
                key_motifs |-> Get(metadata.map, KeyMotifsKey, PyList(<<>>)),
                poetic_seal |-> PoeticSealOf(body_and_trace),
                convergence |-> Get(metadata.map, ConvergenceKey, PyStr(<<>>)),
                full_body |-> body_and_trace],
             prints |-> warning])

\* load_srec(file_path) without the test of line 160.
load_srec_any_start(content) ==
  At(split_dashes(content), LAMBDA parts :
    IF Len(parts) < 3 THEN LoadFailed(<<>>, "Incomplete frontmatter")
    ELSE load_parts(parts))

\* load_srec(file_path) on a file of the given content, lines 155-196: what it
\* returns and what it prints.
load_srec(content) ==
  At(split_dashes(content), LAMBDA parts :
    IF ~startswith(content, Dashes)
    THEN LoadFailed(<<>>, "Not a valid .srec file (missing frontmatter)")
    ELSE IF Len(parts) < 3 THEN LoadFailed(<<>>, "Incomplete frontmatter")
    ELSE load_parts(parts))

\* bool(d) of a dict
Truthy(d) == DOMAIN d # {}

\* ------------------------------------------------------------ the command line
\* --title's default, line 219.
SessionRecap == <<"S","e","s","s","i","o","n"," ","R","e","c","a","p">>

ContinuedPrefix == <<"C","o","n","t","i","n","u","e","d",":"," ">>

Untitled == <<"U","n","t","i","t","l","e","d">>

\* args.title: the option's value, or its default when the option is absent.
ArgTitle(a) == IF a.title = None THEN SessionRecap ELSE a.title[1]

\* str(value) inside an f-string.
PyFormat(val) ==
  IF val.t = "null" THEN <<"N","o","n","e">>
  ELSE IF val.t = "bool"
  THEN (IF val.v \in YamlTrueWords THEN <<"T","r","u","e">> ELSE <<"F","a","l","s","e">>)
  ELSE val.v

\* line 254: title = args.title or f"Continued: {...get('title', 'Untitled')}"
ResumeTitle(a, metadata) ==
  IF ArgTitle(a) # <<>> THEN ArgTitle(a)
  ELSE ContinuedPrefix \o PyFormat(Get(metadata, TitleKey, PyStr(Untitled)))

\* line 258: key_motifs = resume_motifs if args.motifs is None else args.motifs,
\* for a resume_motifs that is a list or None.
ResumeMotifs(a, key_motifs) ==
  IF a.motifs # None THEN a.motifs
  ELSE IF key_motifs.t = "list" THEN Some(key_motifs.v)
  ELSE None

\* print_bootstrap_prompt raises on motifs that cannot be joined or a
\* pie_vector that has no length (lines 204-205).
BootstrapRaises(result) ==
  result.key_motifs.t \notin {"list", "str"} \/ result.pie_vector.t \notin {"list", "str"}

\* base64.b64decode raises on a pie_vector that is not base64 (line 251).
DecodeRaises(result) ==
  result.pie_vector.t # "str" \/ ~b64_well_formed(result.pie_vector.v)

\* ------------------------------------------------------------ inputs
SampleText == <<"C","a","t","s"," ","n","a","p","."," ","C","a","t","s"," ","p","u","r","r","!">>

DashTitle == <<"a","-","-","-","b">>

DashMotif == <<"x","-","-","-","y">>

CommandLine(title, input_text, motifs, convergence) ==
  [title |-> title, input_text |-> input_text, motifs |-> motifs, convergence |-> convergence]

\* The command lines of the model: --title absent, empty or holding "---";
\* --input-text empty or two sentences; --motifs absent, without values or
\* holding "---"; --convergence absent or 0.935.
CommandLines ==
  {CommandLine(t, x, m, None) :
     t \in {None, Some(<<>>), Some(DashTitle)},
     x \in {<<>>, SampleText},
     m \in {None, Some(<<DashMotif>>)}}
  \cup {CommandLine(None, SampleText, Some(<<>>), None),
        CommandLine(None, SampleText, None, Some(935))}

NoCommandLine == [mode |-> "none", args |-> CommandLine(None, <<>>, None, None)]

NoFile == [by |-> "none", family |-> "none", present |-> {},
           title |-> <<>>, key_motifs |-> <<>>, pie_seed |-> <<>>, input_text |-> <<>>]

NoGeneration ==
  [title |-> <<>>, input_text |-> <<>>, key_motifs |-> <<>>, convergence |-> 0,
   h |-> 0, pie_seed |-> <<>>, given_motifs |-> None]

ScoreCall(L, M, max, prev, op) ==
  [L |-> L, M |-> M, max |-> max, score |-> compute_convergence(L, M, max),
   prev |-> prev, op |-> op]

ScIdle == ScoreCall(0, 0, DefaultMaxConvergence, BaseConvergence, "idle")

MxIdle == [text |-> <<>>, words |-> 0, max_motifs |-> 0, motifs |-> <<>>]

\* ------------------------------------------------------------ the program
InitProgram ==
  /\ pc = "idle"
  /\ disk = <<>>
  /\ about = NoFile
  /\ resumes = 0
  /\ inv = NoCommandLine
  /\ read = <<>>
  /\ loaded = <<>>
  /\ src = NoFile
  /\ gen = NoGeneration
  /\ previous = <<>>
  /\ body_sections = <<>>
  /\ calls = <<>>
  /\ out = <<>>
  /\ exit_code = 0

\* generate_srec is entered, lines 96-124: the motifs, the score, the seed
\* and the empty section dict.
EnterGenerate(title, input_text, key_motifs, convergence, pie_seed) ==
  LET motifs == ResolveMotifs(key_motifs, input_text)
      score == ResolveConvergence(convergence, input_text, motifs)
  IN /\ \E h \in Hundredths(score) :
          gen' = [title |-> title, input_text |-> input_text, key_motifs |-> motifs,
                  convergence |-> score, h |-> h,
                  pie_seed |-> ResolveSeed(pie_seed, title, motifs, input_text),
                  given_motifs |-> key_motifs]
     /\ previous' = <<>>
     /\ body_sections' = <<>>
     /\ calls' = <<>>
     /\ pc' = "routines"

\* The process ends before generate_srec is entered.
EndEarly(printed, code) ==
  /\ out' = printed
  /\ exit_code' = code
  /\ pc' = "exit"
  /\ UNCHANGED <<gen, previous, body_sections, calls>>

\* lines 264-273: a fresh document from the command line.  It reads nothing
\* of an earlier file, so a chain of documents starts with it.
Generate ==
  /\ pc = "idle"
  /\ about.by = "none"
  /\ \E a \in CommandLines :
       /\ inv' = [mode |-> "generate", args |-> a]
       /\ out' = IF a.input_text = <<>>
                 THEN << <<"Warning: No --input-text provided. Using placeholder content.">> >>
                 ELSE <<>>
       /\ EnterGenerate(ArgTitle(a), a.input_text, a.motifs, a.convergence, None)
  /\ UNCHANGED <<disk, about, resumes, read, loaded, src, exit_code, machines>>

\* lines 242-261: --resume-from the file on disk.
ResumeFromDisk ==
  \E a \in CommandLines :
    \E r \in {load_srec(disk)} :
    LET banner == r.prints \o << <<"Resuming from previous session:">>,
                                 <<"=== Bootstrap Prompt for New Session ===">> >>
    IN /\ inv' = [mode |-> "resume", args |-> a]
       /\ read' = disk
       /\ loaded' = r.result
       /\ src' = about
       /\ IF ~Truthy(r.result)
          THEN EndEarly(Append(r.prints, <<"Failed to load resume file. Exiting.">>), 1)
          ELSE IF BootstrapRaises(r.result)
          THEN EndEarly(r.prints \o << <<"Resuming from previous session:">>, <<"Traceback">> >>, 1)
          ELSE IF DecodeRaises(r.result)
          THEN EndEarly(Append(banner, <<"Traceback">>), 1)
          ELSE /\ out' = banner
               /\ exit_code' = 0
               /\ EnterGenerate(ResumeTitle(a, r.result.metadata), a.input_text,
                                ResumeMotifs(a, r.result.key_motifs), a.convergence,
                                Some(b64decode(r.result.pie_vector.v)))

\* A document this program wrote is resumed.
Resume ==
  /\ pc = "idle"
  /\ about.by = "program"
  /\ resumes < MaxResumes
  /\ ResumeFromDisk
  /\ UNCHANGED <<disk, about, resumes, machines>>

\* A file written by hand is resumed.
ResumeForeign ==
  /\ pc = "idle"
  /\ about.by = "hand"
  /\ ResumeFromDisk
  /\ UNCHANGED <<disk, about, resumes, machines>>

\* lines 125-135: one turn of the loop over the six routines.
RoutineStep ==
  /\ pc = "routines"
  /\ Len(calls) < Len(Routines)
  /\ LET routine == Routines[Len(calls) + 1]
     IN \E content \in {basic_summarize_section(gen.input_text, routine, previous,
                                                 gen.key_motifs)} :
        /\ calls' = Append(calls, [routine |-> routine, input_text |-> gen.input_text,
                                   previous |-> previous, motifs |-> gen.key_motifs,
                                   content |-> content])
        /\ body_sections' = DictSet(body_sections, routine, content)
        /\ previous' = NextPrevious(previous, content)
  /\ UNCHANGED <<pc, disk, about, resumes, inv, read, loaded, src, gen, out, exit_code, machines>>

\* lines 137-152 and 311-312: the loop is over, the text is put together,
\* returned and written to the file.
Finish ==
  /\ pc = "routines"
  /\ Len(calls) = Len(Routines)
  /\ disk' = Output(Metadata(gen.title, gen.h, gen.pie_seed, gen.key_motifs, gen.input_text),
                    body_sections, gen.h)
  /\ about' = [by |-> "program", family |-> "none", present |-> {},
               title |-> gen.title, key_motifs |-> gen.key_motifs,
               pie_seed |-> gen.pie_seed, input_text |-> gen.input_text]
  /\ resumes' = IF inv.mode = "resume" THEN resumes + 1 ELSE 0
  /\ out' = Append(out, <<"Generated:">>)
  /\ exit_code' = 0
  /\ pc' = "exit"
  /\ UNCHANGED <<inv, read, loaded, src, gen, previous, body_sections, calls, machines>>

\* lines 232-236: --load of the file on disk.
Load ==
  /\ pc = "idle"
  /\ about.by # "none"
  /\ \E r \in {load_srec(disk)} :
        /\ inv' = [mode |-> "load", args |-> NoCommandLine.args]
        /\ read' = disk
        /\ loaded' = r.result
        /\ src' = about
        /\ IF Truthy(r.result) /\ BootstrapRaises(r.result)
           THEN EndEarly(Append(r.prints, <<"Traceback">>), 1)
           ELSE EndEarly(IF Truthy(r.result)
                         THEN Append(r.prints, <<"=== Bootstrap Prompt for New Session ===">>)
                         ELSE r.prints, 0)
  /\ UNCHANGED <<disk, about, resumes, machines>>

\* The process is gone; the file stays.
Exit ==
  /\ pc = "exit"
  /\ pc' = "idle"
  /\ inv' = NoCommandLine
  /\ read' = <<>>
  /\ loaded' = <<>>
  /\ src' = NoFile
  /\ gen' = NoGeneration
  /\ previous' = <<>>
  /\ body_sections' = <<>>
  /\ calls' = <<>>
  /\ out' = <<>>
  /\ exit_code' = 0
  /\ UNCHANGED <<disk, about, resumes, machines>>

Init == InitProgram /\ sc = ScIdle /\ mx = MxIdle

Next == Generate \/ Resume \/ RoutineStep \/ Finish \/ Load \/ Exit

Spec == Init /\ [][Next]_vars

\* ------------------------------------------------------------ files written by hand
Recap == <<"R","e","c","a","p">>

\* The line or lines of a metadata block that give a required key.
KeyLines(k) ==
  IF k = TitleKey THEN k \o <<":", " ">> \o Recap \o <<"\n">>
  ELSE IF k = required_keys[2] THEN k \o <<":", " ", "'", "3", ".", "1", "'", "\n">>
  ELSE IF k = ConvergenceKey
  THEN k \o <<":", " ", "\"", YamlEscape("U+03B7"), " ", YamlEscape("U+2248"), " ",
              "0", ".", "8", "5", "\"", "\n">>
  ELSE IF k = PieVectorKey THEN k \o <<":", " ">> \o b64encode(encode_utf8(Recap)) \o <<"\n">>
  ELSE k \o <<":", "\n", "-", " ", "C", "a", "t", "s", "\n", "-", " ", "N", "a", "p", "\n">>

\* A metadata block with the required keys of S, in their order.
KeyBlock(S) ==
  Concat([i \in 1..Len(required_keys) |->
            IF required_keys[i] \in S THEN KeyLines(required_keys[i]) ELSE <<>>])

AllKeys == Range(required_keys)

HandBody ==
  Body(<< <<Routines[6],
            basic_summarize_section(SampleText, Routines[6], <<>>, << <<"C","a","t","s">> >>)>> >>)

\* A file of a block between two delimiter lines and a body.
Delimited(block) == Dashes \o <<"\n">> \o block \o Dashes \o <<"\n", "\n">> \o HandBody

HandFile(text, family, present) == [text |-> text, family |-> family, present |-> present]

\* The files written by hand: every subset of the required keys between
\* the delimiters, and files that are no .srec documents.
ForeignFiles ==
  {HandFile(Delimited(KeyBlock(S)), "keys", S) : S \in SUBSET AllKeys}
  \cup
  {HandFile(<<>>, "empty", {}),
   HandFile(KeyBlock(AllKeys) \o Dashes \o <<"\n", "\n">> \o HandBody, "no opening", AllKeys),
   HandFile(<<"x">> \o Delimited(KeyBlock(AllKeys)), "late opening", AllKeys),
   HandFile(Dashes \o <<"\n">> \o KeyBlock(AllKeys) \o HandBody, "no closing", AllKeys),
   HandFile(Delimited(TitleKey \o <<"\n">>), "scalar", {}),
   HandFile(Delimited(<<"4", "2", "\n">>), "number", {}),
   HandFile(Delimited(<<"-", " ">> \o TitleKey \o <<"\n", "-", " ", "x", "\n">>), "list", {}),
   HandFile(Delimited(TitleKey \o <<":", " ", "'">> \o Recap \o <<"\n">>), "open quote", {}),
   HandFile(Delimited(<<"d", "a", "t", "e", ":", " ", "x", "\n">>), "other key", {}),
   HandFile(Delimited(KeyBlock(AllKeys \ {PieVectorKey})
                      \o PieVectorKey \o <<":", " ", "U", "m", "V", "j", "Y", "X", "A", "\n">>),
            "bad seed", AllKeys)}

InitLoad ==
  /\ sc = ScIdle
  /\ mx = MxIdle
  /\ \E f \in ForeignFiles :
       /\ disk = f.text
       /\ about = [NoFile EXCEPT !.by = "hand", !.family = f.family, !.present = f.present]
  /\ pc = "idle"
  /\ resumes = 0
  /\ inv = NoCommandLine
  /\ read = <<>>
  /\ loaded = <<>>
  /\ src = NoFile
  /\ gen = NoGeneration
  /\ previous = <<>>
  /\ body_sections = <<>>
  /\ calls = <<>>
  /\ out = <<>>
  /\ exit_code = 0

NextLoad == Load \/ ResumeForeign \/ RoutineStep \/ Finish \/ Exit

SpecLoad == InitLoad /\ [][NextLoad]_vars

\* ------------------------------------------------------------ the score machine
\* A caller of compute_convergence: the arguments of the latest call (L words,
\* M motifs, max), its result, the result of the call before it and which
\* argument changed between the two.
MaxConvergenceArgs == {0, 500, 699, 700, 701, 800, 945, 950, 1000, 1200}

InitScore ==
  /\ sc \in {ScoreCall(0, 0, max, compute_convergence(0, 0, max), "first") :
               max \in MaxConvergenceArgs}
  /\ mx = MxIdle
  /\ InitProgram

ScoreMoreWords ==
  /\ sc.L < MaxWordCount
  /\ sc' = ScoreCall(sc.L + 1, sc.M, sc.max, sc.score, "words")
  /\ UNCHANGED <<mx, program>>

ScoreMoreMotifs ==
  /\ sc.M < MaxMotifCount
  /\ sc' = ScoreCall(sc.L, sc.M + 1, sc.max, sc.score, "motifs")
  /\ UNCHANGED <<mx, program>>

ScoreOtherMax ==
  /\ \E max \in MaxConvergenceArgs \ {sc.max} :
       sc' = ScoreCall(sc.L, sc.M, max, sc.score, "max")
  /\ UNCHANGED <<mx, program>>

NextScore == ScoreMoreWords \/ ScoreMoreMotifs \/ ScoreOtherMax

SpecScore == InitScore /\ [][NextScore]_vars

\* ------------------------------------------------------------ the motif machine
\* A caller of extract_motifs on a text that grows by one word a call.
Vocabulary ==
  { <<"T","h","e">>, <<"a","b">>, <<"c","a","t">>, <<"C","a","t">>,
    <<"U+00DF","a","b">>, <<"s","s","a","b">> }

MotifCall(text, words, max_motifs) ==
  [text |-> text, words |-> words, max_motifs |-> max_motifs,
   motifs |-> extract_motifs(text, max_motifs)]

InitMotifs ==
  /\ mx \in {MotifCall(<<>>, 0, m) : m \in 0..MaxMotifsArg}
  /\ sc = ScIdle
  /\ InitProgram

ExtractFromLongerText ==
  /\ mx.words < MaxTextWords
  /\ \E w \in Vocabulary :
       mx' = MotifCall(IF mx.text = <<>> THEN w ELSE mx.text \o <<" ">> \o w,
                       mx.words + 1, mx.max_motifs)
  /\ UNCHANGED <<sc, program>>

NextMotifs == ExtractFromLongerText

SpecMotifs == InitMotifs /\ [][NextMotifs]_vars

\* ------------------------------------------------------------ claims: score
\* C7 as claimed: for every max_score the result is 0.70 at L = 0, never
\* decreases when L or M grows, never exceeds max_score, and lies in
\* [0.70, 0.95] under the default max_score.
C7_ScoreAsClaimed ==
  /\ sc.L = 0 => sc.score = 700
  /\ sc.op \in {"words", "motifs"} => sc.score >= sc.prev
  /\ sc.score <= sc.max
  /\ sc.max = 950 => sc.score >= 700 /\ sc.score <= 950

\* C7 amended: the same for every max_score >= 0.70; for a max_score below
\* 0.70 the result still never decreases in M, but at L = 0 it is 0.70, above
\* max_score and above the result at L = 1.
C7_ScoreAmended ==
  /\ sc.L = 0 => sc.score = 700
  /\ sc.op = "motifs" => sc.score >= sc.prev
  /\ sc.op = "words" => sc.score >= sc.prev \/ (sc.max < 700 /\ sc.L = 1)
  /\ sc.score <= sc.max \/ (sc.max < 700 /\ sc.L = 0)
  /\ sc.max < 700 /\ sc.L = 0 => sc.score > sc.max
  /\ sc.max < 700 /\ sc.L = 1 /\ sc.op = "words" => sc.score < sc.prev
  /\ sc.max = 950 => sc.score >= 700 /\ sc.score <= 950

\* Both caps reached under the default max_score by one more word.
C7_Witness ==
  /\ sc.op = "words" /\ sc.max = 950 /\ sc.L = 30 /\ sc.M >= 1
  /\ sc.score = 950 /\ sc.prev = 945

\* ------------------------------------------------------------ claims: motifs
\* The terms of a text that survive the filter, stated from the tokens.
SurvivingTerms(text) ==
  {w \in Range(findall_words(lower(text))) : Len(w) > 2 /\ w \notin STOPWORDS}

IsSentinelResult(r) == r = <<NoMotifs>> \/ r = <<NoStrongMotifs>>

\* u is counted more often than w in the text, or as often and seen first.
MoreFrequent(text, u, w) ==
  LET ws == findall_words(lower(text))
  IN \/ Count(ws, u) > Count(ws, w)
     \/ Count(ws, u) = Count(ws, w) /\ FirstIndex(ws, u) < FirstIndex(ws, w)

\* Every returned string displays a surviving term, and any two returned
\* strings display two different terms in frequency order.
DisplaysTermsInOrder(text, r) ==
  /\ \A i \in 1..Len(r) :
       r[i] # <<>> /\ \E w \in SurvivingTerms(text) : capitalize(w) = r[i]
  /\ \A i, j \in 1..Len(r) :
       i < j => \E u, w \in SurvivingTerms(text) :
                  /\ u # w /\ capitalize(u) = r[i] /\ capitalize(w) = r[j]
                  /\ MoreFrequent(text, u, w)

PairwiseDistinct(r) == \A i, j \in 1..Len(r) : i # j => r[i] # r[j]

\* C8 as claimed: for every text and every max_motifs the result is a sentinel
\* exactly when the text is empty or no term survives, and otherwise at most
\* max_motifs pairwise distinct display strings in frequency order.
C8_MotifsAsClaimed ==
  /\ mx.motifs # <<>>
  /\ IsSentinelResult(mx.motifs) <=> (mx.text = <<>> \/ SurvivingTerms(mx.text) = {})
  /\ mx.text = <<>> => mx.motifs = <<NoMotifs>>
  /\ mx.text # <<>> /\ SurvivingTerms(mx.text) = {} => mx.motifs = <<NoStrongMotifs>>
  /\ ~IsSentinelResult(mx.motifs) =>
       /\ Len(mx.motifs) <= mx.max_motifs
       /\ PairwiseDistinct(mx.motifs)
       /\ DisplaysTermsInOrder(mx.text, mx.motifs)

\* C8 amended: the result is never empty; an empty text gives "[no motifs
\* detected]"; for max_motifs >= 1 the "[no strong motifs detected]" sentinel is
\* returned exactly when the text is not empty and no term survives, and
\* otherwise the result is at most max_motifs display strings of pairwise
\* distinct surviving terms in frequency order, themselves pairwise distinct
\* unless two of the terms capitalise to the same string; for max_motifs <= 0
\* every non-empty text gives the "[no strong motifs detected]" sentinel.
C8_MotifsAmended ==
  /\ mx.motifs # <<>>
  /\ mx.text = <<>> => mx.motifs = <<NoMotifs>>
  /\ mx.text # <<>> /\ mx.max_motifs <= 0 => mx.motifs = <<NoStrongMotifs>>
  /\ mx.text # <<>> /\ mx.max_motifs >= 1 =>
       /\ IsSentinelResult(mx.motifs) <=> SurvivingTerms(mx.text) = {}
       /\ SurvivingTerms(mx.text) = {} => mx.motifs = <<NoStrongMotifs>>
       /\ ~IsSentinelResult(mx.motifs) =>
            /\ Len(mx.motifs) <= mx.max_motifs
            /\ DisplaysTermsInOrder(mx.text, mx.motifs)
            /\ PairwiseDistinct(mx.motifs) \/
                 \E u, w \in SurvivingTerms(mx.text) :
                   u # w /\ capitalize(u) = capitalize(w)

\* "cat ssab ssab <sharp s>ab" with max_motifs = 2: the later, more frequent term
\* comes first, a stopword-free third term is cut off.
C8_Witness ==
  /\ mx.max_motifs = 2
  /\ Cardinality(SurvivingTerms(mx.text)) = 3
  /\ mx.motifs = << <<"S","s","a","b">>, <<"C","a","t">> >>

\* ------------------------------------------------------------ the runs the claims speak of
\* The process has ended after generate_srec returned and the file was written.
Generated == pc = "exit" /\ Len(calls) = Len(Routines)

\* A fresh generation has ended.
FreshDone == Generated /\ inv.mode = "generate"

\* A resume has ended with a new document.
ResumeDone == Generated /\ inv.mode = "resume"

\* A --load has ended.
LoadDone == pc = "exit" /\ inv.mode = "load"

Printed(line) == \E i \in 1..Len(out) : out[i] = line

PrintedError == \E i \in 1..Len(out) : out[i][1] = "Error loading .srec:"

\* C1 as stated.  A document generated from the input text "" with no motif
\* and no score override has the score 0.70, the one motif "[no motifs
\* detected]", and the placeholder marker as the text of each of its six
\* sections.
C1_PlaceholderInEveryStage ==
  (FreshDone /\ gen.input_text = <<>> /\ inv.args.motifs = None /\ inv.args.convergence = None)
    => /\ gen.convergence = 700
       /\ gen.key_motifs = <<NoMotifs>>
       /\ Len(body_sections) = 6
       /\ \A i \in 1..Len(body_sections) : body_sections[i][2] = Placeholder

\* C2 as stated.  Loading a document this program wrote succeeds and gives
\* back the motif list and the title the document was built with.
C2_RoundTrip ==
  (LoadDone /\ src.by = "program")
    => /\ Truthy(loaded)
       /\ loaded.key_motifs = PyList(src.key_motifs)
       /\ HasKey(loaded.metadata, TitleKey)
       /\ Get(loaded.metadata, TitleKey, PyNull) = PyStr(src.title)

\* C3 as stated.  A resume, without a motif override, of a document this
\* program wrote gives a new document whose stored pie_vector decodes to the
\* seed bytes of the document resumed and whose motif list is that
\* document's.
C3_ResumeKeepsSeedAndMotifs ==
  (pc = "exit" /\ inv.mode = "resume" /\ src.by = "program" /\ inv.args.motifs = None)
    => /\ Generated
       /\ b64decode(b64encode(gen.pie_seed)) = src.pie_seed
       /\ gen.key_motifs = src.key_motifs

\* C4 as stated.  The title of a resumed document is the title given on the
\* command line and, when none is given, "Continued: " followed by the title
\* stored in the document resumed.
C4_ResumeTitle ==
  ResumeDone
    => /\ (inv.args.title # None /\ inv.args.title # Some(<<>>))
            => gen.title = inv.args.title[1]
       /\ (inv.args.title = None /\ HasKey(loaded.metadata, TitleKey))
            => gen.title = ContinuedPrefix \o Get(loaded.metadata, TitleKey, PyNull).v

\* The text does not begin with "---".
NoOpeningDelimiter(text) ==
  ~(Len(text) >= 3 /\ text[1] = "-" /\ text[2] = "-" /\ text[3] = "-")

DashesAt(text, i) == text[i] = "-" /\ text[i + 1] = "-" /\ text[i + 2] = "-"

\* The text has no two delimiters one after the other, so it cuts into
\* fewer than three parts.
FewerThanThreeParts(text) ==
  ~\E i, j \in 1..(Len(text) - 2) : i + 3 <= j /\ DashesAt(text, i) /\ DashesAt(text, j)

FormatErrors ==
  {<<"Error loading .srec:", "Not a valid .srec file (missing frontmatter)">>,
   <<"Error loading .srec:", "Incomplete frontmatter">>}

ResultFields == {"metadata", "pie_vector", "key_motifs", "poetic_seal", "convergence", "full_body"}

\* C5.  load_srec on a text that does not begin with "---", or that cuts
\* into fewer than three parts, returns the empty dict and prints a format
\* error, and a resume from it exits with status 1 having generated nothing;
\* whatever the text, the empty dict is returned exactly when an error is
\* printed, and any other result has all six fields.
C5_FormatErrorSurfaced ==
  (pc = "exit" /\ inv.mode \in {"load", "resume"})
    => /\ (NoOpeningDelimiter(read) \/ FewerThanThreeParts(read))
            => /\ loaded = <<>>
               /\ \E e \in FormatErrors : Printed(e)
               /\ inv.mode = "resume"
                    => /\ exit_code = 1
                       /\ calls = <<>>
                       /\ disk = read
                       /\ Printed(<<"Failed to load resume file. Exiting.">>)
       /\ (loaded = <<>>) <=> PrintedError
       /\ loaded # <<>> => DOMAIN loaded = ResultFields

\* C5's case: a resume from a text that begins with "---" and has no second
\* delimiter has ended without a document.
C5_Witness ==
  /\ pc = "exit" /\ inv.mode = "resume"
  /\ ~NoOpeningDelimiter(read) /\ FewerThanThreeParts(read)
  /\ loaded = <<>> /\ exit_code = 1

\* C6 as stated.  load_srec on a delimited document whose metadata block
\* holds any subset of the five expected keys succeeds, reports the keys
\* that are absent, and returns an empty motif list for an absent key_motifs
\* and an empty seed string for an absent pie_vector.
C6_MissingKeysNeverAbort ==
  (LoadDone /\ src.by = "hand" /\ src.family = "keys")
    => /\ Truthy(loaded)
       /\ ~PrintedError
       /\ src.present # AllKeys
            => Printed(<<"Warning: Missing metadata keys:">>
                       \o SelectSeq(required_keys, LAMBDA k : k \notin src.present))
       /\ KeyMotifsKey \notin src.present => loaded.key_motifs = PyList(<<>>)
       /\ PieVectorKey \notin src.present => loaded.pie_vector = PyStr(<<>>)

\* C9 as stated.  When generate_srec is given a motif list that is one
\* sentinel value and a non-empty input text, the motifs of the new
\* document are extracted from that text and the sentinel is not among them.
C9_SentinelMeansAbsent ==
  (pc \in {"routines", "exit"} /\ gen # NoGeneration /\ gen.input_text # <<>>
   /\ gen.given_motifs \in {Some(<<NoMotifs>>), Some(<<NoStrongMotifs>>)})
    => /\ gen.key_motifs = extract_motifs(gen.input_text, DefaultMaxMotifs)
       /\ NoMotifs \notin Range(gen.key_motifs)
       /\ NoStrongMotifs \notin Range(gen.key_motifs)

StageNames == <<"Foundation", "Connection", "Placement", "Polish", "Action", "Synthesis">>

\* C10.  In every run of generate_srec the stages run once each in the order
\* Foundation, Connection, Placement, Polish, Action, Synthesis, and the run
\* ends after Synthesis; the first stage gets empty prior content and each
\* later stage the text the stage before it produced; all stages get the
\* same input text and motif list; the sections are the stages' texts, in
\* that order, none empty, six of them at the end.
C10_StagesChained ==
  /\ pc \in {"routines", "exit"} =>
       /\ Len(calls) <= 6
       /\ Len(body_sections) = Len(calls)
       /\ \A i \in 1..Len(calls) :
            /\ calls[i].routine[1] = StageNames[i]
            /\ body_sections[i][1] = calls[i].routine
            /\ body_sections[i][2] = calls[i].content
            /\ calls[i].content # <<>>
            /\ calls[i].input_text = gen.input_text
            /\ calls[i].motifs = gen.key_motifs
            /\ calls[i].previous = IF i = 1 THEN <<>> ELSE calls[i - 1].content
  /\ (pc = "exit" /\ Printed(<<"Generated:">>)) => Len(calls) = 6

\* C10's case: a generation from a text of two sentences has ended with six
\* sections, the last the Synthesis stage's, built on the Action stage's text.
C10_Witness ==
  /\ Generated
  /\ gen.input_text = SampleText
  /\ Len(body_sections) = 6
  /\ calls[6].routine[1] = "Synthesis"
  /\ calls[6].previous = calls[5].content
  /\ calls[5].content # calls[4].content

====
